---- MODULE Spec2Model ----
(***************************************************************************)
(* Model of IndependentWeightAlgorithm.ipynb: the independent weight of a  *)
(* distribution P over d binary variables.                                 *)
(*                                                                         *)
(* Numbers.  Probabilities are exact rationals <<n, den>> in lowest terms. *)
(* The distributions explored have entries 4^a / W, so every logarithm     *)
(* log(P[j]/P[K]) is an even multiple of ln 2; the solver's vectors b and  *)
(* y are kept as integers in units of ln 2, and exp(y) is the rational     *)
(* 2^y.  Sequences are 1-based: index i here is index i-1 of the source.   *)
(***************************************************************************)
EXTENDS Integers, Sequences, FiniteSets, TLC

\* ---------------------------------------------------------------- bounds
MaxD == 2
MaxWeight == 7

\* ------------------------------------------------------------- rationals
RECURSIVE GCD(_, _)
GCD(a, b) == IF b = 0 THEN a ELSE GCD(b, a % b)

Abs(n) == IF n < 0 THEN -n ELSE n

Norm(r) ==
    LET g == GCD(Abs(r[1]), r[2])
    IN  <<r[1] \div g, r[2] \div g>>

Zero == <<0, 1>>
One == <<1, 1>>
Half == <<1, 2>>

RMul(a, b) == Norm(<<a[1] * b[1], a[2] * b[2]>>)
RAdd(a, b) == Norm(<<a[1] * b[2] + b[1] * a[2], a[2] * b[2]>>)
RSub(a, b) == Norm(<<a[1] * b[2] - b[1] * a[2], a[2] * b[2]>>)
\* a / b for b > 0
RDiv(a, b) == Norm(<<a[1] * b[2], a[2] * b[1]>>)
RPos(a) == a[1] > 0

\* a < b for non-negative rationals, by continued-fraction expansion
\* (no cross product, so no 32-bit overflow)
RECURSIVE RLess(_, _)
RLess(a, b) ==
    LET qa == a[1] \div a[2]
        qb == b[1] \div b[2]
        ra == a[1] % a[2]
        rb == b[1] % b[2]
    IN  IF qa # qb THEN qa < qb
        ELSE IF rb = 0 THEN FALSE
        ELSE IF ra = 0 THEN TRUE
        ELSE RLess(<<b[2], rb>>, <<a[2], ra>>)

RECURSIVE TwoPow(_)
TwoPow(n) == IF n = 0 THEN 1 ELSE 2 * TwoPow(n - 1)

RECURSIVE ThreePow(_)
ThreePow(n) == IF n = 0 THEN 1 ELSE 3 * ThreePow(n - 1)

\* int(np.log2(n)) for n >= 1
RECURSIVE Log2Int(_)
Log2Int(n) == IF n <= 1 THEN 0 ELSE 1 + Log2Int(n \div 2)

\* a power that takes 0 ** 0 to be 0
PowZeroZero(x, e) == IF x = Zero THEN Zero ELSE IF e = 0 THEN One ELSE x

\* x ** e for an exponent e in {0, 1}: Python gives x ** 0.0 = 1.0 for every
\* x, 0 included
Pow(x, e) == IF e = 0 THEN One ELSE x

\* np.exp(y) with y in units of ln 2
Exp(y) == IF y >= 0 THEN <<TwoPow(y), 1>> ELSE <<1, TwoPow(-y)>>

\* np.log(r) in units of ln 2, for r a power of two
Log(r) == Log2Int(r[1]) - Log2Int(r[2])

\* ---------------------------------------------------------- enumerations
\* list(map(''.join, itertools.product(['0','1'], repeat=d)))
Range(d) ==
    [i \in 1..TwoPow(d) |->
        [j \in 1..d |-> ((i - 1) \div TwoPow(d - j)) % 2]]

Alphabet == <<Zero, One, Half>>

\* list(itertools.product([0, 1, 0.5], repeat=d))
Configurations(d) ==
    [i \in 1..ThreePow(d) |->
        [j \in 1..d |-> Alphabet[(((i - 1) \div ThreePow(d - j)) % 3) + 1]]]

\* list.index(x): first position holding x (0 if absent)
RECURSIVE IndexFrom(_, _, _)
IndexFrom(s, x, i) ==
    IF i > Len(s) THEN 0
    ELSE IF s[i] = x THEN i
    ELSE IndexFrom(s, x, i + 1)

Index(s, x) == IndexFrom(s, x, 1)

\* list.count(x)
Count(s, x) == Cardinality({i \in 1..Len(s) : s[i] = x})

\* ------------------------------------------------ createIndependentSource
RECURSIVE pkFrom(_, _, _)
pkFrom(params, x, j) ==
    IF j > Len(params) THEN One
    ELSE RMul(RMul(Pow(params[j], x[j]), Pow(RSub(One, params[j]), 1 - x[j])),
              pkFrom(params, x, j + 1))

createIndependentSource(params) ==
    LET d == Len(params)
        R == Range(d)
    IN  [k \in 1..Len(R) |-> pkFrom(params, R[k], 1)]

\* ------------------------------------------------------------ compatible
\* a check that also rejects P non-zero where Q is zero
RECURSIVE compatibleFromSymmetric(_, _, _)
compatibleFromSymmetric(P, Q, j) ==
    IF j > Len(P) THEN TRUE
    ELSE IF (P[j] = Zero) # (Q[j] = Zero) THEN FALSE
    ELSE compatibleFromSymmetric(P, Q, j + 1)

\* a check with `or` in place of `and`
RECURSIVE compatibleFromOr(_, _, _)
compatibleFromOr(P, Q, j) ==
    IF j > Len(P) THEN TRUE
    ELSE IF P[j] = Zero \/ Q[j] # Zero THEN FALSE
    ELSE compatibleFromOr(P, Q, j + 1)

\* the loop `for j in range(len(P))` with its early return
RECURSIVE compatibleFrom(_, _, _)
compatibleFrom(P, Q, j) ==
    IF j > Len(P) THEN TRUE
    ELSE IF P[j] = Zero /\ Q[j] # Zero THEN FALSE
    ELSE compatibleFrom(P, Q, j + 1)

compatible(c, P) ==
    LET Q == createIndependentSource(c)
    IN  compatibleFrom(P, Q, 1)

\* ---------------------------------------------------- computeVerticesHoles
\* epsilon = 10**-5 and ln 2, both in millionths
epsilonMicro == 10
LnTwoMicro == 693147

Indices(n) == [i \in 1..n |-> i]

\* variables = [x for x in range(d) if 0 < c[x] < 1]
variables(c) ==
    LET free(x) == RPos(c[x]) /\ RLess(c[x], One)
    IN  SelectSeq(Indices(Len(c)), free)

\* the outcomes j that get a row: j != K and P[j] > 0 and Q[j] > 0
rowOutcomes(P, Q, K) ==
    LET hasRow(j) == j # K /\ RPos(P[j]) /\ RPos(Q[j])
    IN  SelectSeq(Indices(Len(P)), hasRow)

\* b.append(np.log(P[j] / P[K]))
bOf(P, K, rows) == [r \in 1..Len(rows) |-> Log(RDiv(P[rows[r]], P[K]))]

\* A[-1].append(1 if Range[j][i] != Range[K][i] else 0) for i in variables
AOf(R, K, rows, vars) ==
    [r \in 1..Len(rows) |->
        [l \in 1..Len(vars) |->
            IF R[rows[r]][vars[l]] # R[K][vars[l]] THEN 1 ELSE 0]]

\* itertools.combinations of e elements of lo..n, in lexicographic order
RECURSIVE combinationsFrom(_, _, _)
combinationsFrom(lo, n, e) ==
    IF e = 0 THEN << <<>> >>
    ELSE IF lo > n THEN <<>>
    ELSE LET with == combinationsFrom(lo + 1, n, e - 1)
             without == combinationsFrom(lo + 1, n, e)
         IN  [i \in 1..Len(with) |-> <<lo>> \o with[i]] \o without

combinations(n, e) == combinationsFrom(1, n, e)

\* the matrix without its first row and its column col
Minor(M, col) ==
    [r \in 1..(Len(M) - 1) |->
        [l \in 1..(Len(M) - 1) |-> M[r + 1][IF l < col THEN l ELSE l + 1]]]

RECURSIVE Det(_)
RECURSIVE DetSum(_, _)
DetSum(M, col) ==
    IF col > Len(M) THEN 0
    ELSE (IF col % 2 = 1 THEN 1 ELSE -1) * M[1][col] * Det(Minor(M, col))
         + DetSum(M, col + 1)

Det(M) == IF Len(M) = 0 THEN 1 ELSE DetSum(M, 1)

ReplaceCol(M, col, v) ==
    [r \in 1..Len(M) |-> [l \in 1..Len(M) |-> IF l = col THEN v[r] ELSE M[r][l]]]

\* np.linalg.solve(Atilde, btilde): LinAlgError on a singular matrix, else
\* the solution (Cramer's rule; b is even and |det| <= 2 for 0/1 matrices
\* of order <= 3, so the quotient is exact)
solve(Atilde, btilde) ==
    LET D == Det(Atilde)
    IN  IF D = 0 THEN [singular |-> TRUE, y |-> <<>>]
        ELSE [singular |-> FALSE,
              y |-> [l \in 1..Len(Atilde) |->
                        Det(ReplaceCol(Atilde, l, btilde)) \div D]]

RECURSIVE SumTo(_, _, _)
SumTo(row, y, l) == IF l = 0 THEN 0 ELSE row[l] * y[l] + SumTo(row, y, l - 1)

\* np.dot(A, ytilde)
dot(A, y) == [r \in 1..Len(A) |-> SumTo(A[r], y, Len(y))]

\* np.all(np.dot(A, ytilde) <= b + epsilon)
feasible(A, y, b) ==
    LET Ay == dot(A, y)
    IN  \A r \in 1..Len(A) : (Ay[r] - b[r]) * LnTwoMicro <= epsilonMicro

\* the loop over subsets: the accepted vertices, in subset order
RECURSIVE verticesFrom(_, _, _, _)
verticesFrom(A, b, subsets, i) ==
    IF i > Len(subsets) THEN <<>>
    ELSE LET subset == subsets[i]
             Atilde == [r \in 1..Len(subset) |-> A[subset[r]]]
             btilde == [r \in 1..Len(subset) |-> b[subset[r]]]
             sol == solve(Atilde, btilde)
             rest == verticesFrom(A, b, subsets, i + 1)
         IN  IF ~sol.singular /\ feasible(A, sol.y, b)
             THEN <<sol.y>> \o rest
             ELSE rest

\* np.prod(1 + np.exp(y))
RECURSIVE prodOnePlusExp(_, _)
prodOnePlusExp(y, l) ==
    IF l = 0 THEN One
    ELSE RMul(RAdd(One, Exp(y[l])), prodOnePlusExp(y, l - 1))

\* the least element in place of the greatest
RECURSIVE minFrom(_, _, _)
minFrom(s, i, best) ==
    IF i > Len(s) THEN best
    ELSE minFrom(s, i + 1, IF RLess(s[i], best) THEN s[i] ELSE best)

min(s) == minFrom(s, 2, s[1])

\* max(list) of a non-empty list of rationals
RECURSIVE maxFrom(_, _, _)
maxFrom(s, i, best) ==
    IF i > Len(s) THEN best
    ELSE maxFrom(s, i + 1, IF RLess(best, s[i]) THEN s[i] ELSE best)

max(s) == maxFrom(s, 2, s[1])

\* x ** (1 - 2*bit): x itself for bit 0, 1/x for bit 1
PowSign(x, bit) == IF bit = 0 THEN x ELSE <<x[2], x[1]>>

\* position of coordinate j among the free coordinates before it
freeBefore(vars, j) ==
    Cardinality({i \in 1..Len(vars) : vars[i] < j})

\* the loop over the coordinates that builds q; l is the running counter
\* of free coordinates (l += 1), and the sign is read from k[l]
qOf(c, k, vars, yhat) ==
    [j \in 1..Len(k) |->
        IF Index(vars, j) # 0
        THEN LET l == freeBefore(vars, j) + 1
                 s == PowSign(Exp(yhat[l]), k[l])
             IN  RDiv(s, RAdd(One, s))
        ELSE c[j]]

Failed(err) ==
    [status |-> err, M |-> Zero, q |-> <<>>, rows |-> <<>>, A |-> <<>>,
     b |-> <<>>, vertices |-> <<>>, yhat |-> <<>>]

computeVerticesHoles(P, k, c) ==
    LET Q == createIndependentSource(c)
        d == Len(k)
        R == Range(d)
        vars == variables(c)
        e == Len(vars)
        K == Index(R, k)
        rows == rowOutcomes(P, Q, K)
    IN  IF Len(rows) > 0 /\ P[K] = Zero THEN Failed("ZeroDivisionError")
        ELSE
        LET b == bOf(P, K, rows)
            A == AOf(R, K, rows, vars)
            subsets == combinations(Len(A), e)
            vertices == verticesFrom(A, b, subsets, 1)
            critVals == [v \in 1..Len(vertices) |->
                            RMul(P[K], prodOnePlusExp(vertices[v], e))]
        IN  IF Len(critVals) = 0 THEN Failed("ValueError")
            ELSE LET M == max(critVals)
                     yhat == vertices[Index(critVals, M)]
                 IN  [status |-> "ok", M |-> M, q |-> qOf(c, k, vars, yhat),
                      rows |-> rows, A |-> A, b |-> b,
                      vertices |-> vertices, yhat |-> yhat]

\* ----------------------------------------------------------------- state
VARIABLES
    P,            \* the distribution handed to indWeightHoles
    pc,           \* "filter", "search", "done", "failed"; "fn" for direct calls
    ci,           \* position of the loop `for c in C`
    compatibles,  \* the list compatibles
    pi,           \* position of the loop `for c in compatibles`
    Ii,           \* position of the loop `for I in Range`
    objectives,   \* the list objectives
    maximisers,   \* the list maximisers
    calls,        \* the computeVerticesHoles invocations made so far
    Lambda,       \* the returned weight
    Max,          \* the returned parameter vector
    error,        \* the exception that ended the run, or "none"
    call          \* the last direct application of a function

vars == <<P, pc, ci, compatibles, pi, Ii, objectives, maximisers, calls,
          Lambda, Max, error, call>>

\* d = int(np.log2(len(P)))
dOf(p) == Log2Int(Len(p))

\* the distributions explored in dimension d: entry j has a level; level 0
\* is a hole (probability 0) and level a+1 the weight 4^a, so the entry is
\* 4^a / W with W the sum of the weights, which is at most MaxWeight
RECURSIVE FourPow(_)
FourPow(a) == IF a = 0 THEN 1 ELSE 4 * FourPow(a - 1)

weight(level) == IF level = 0 THEN 0 ELSE FourPow(level - 1)

RECURSIVE weightSum(_, _)
weightSum(a, j) == IF j = 0 THEN 0 ELSE weight(a[j]) + weightSum(a, j - 1)

\* the highest level whose weight is at most MaxWeight
MaxLevel == (Log2Int(MaxWeight) \div 2) + 1

fromLevels(a) ==
    LET n == Cardinality(DOMAIN a)
        W == weightSum(a, n)
    IN  [j \in 1..n |-> Norm(<<weight(a[j]), W>>)]

Distributions(d) ==
    {fromLevels(a) :
        a \in {x \in [1..TwoPow(d) -> 0..MaxLevel] :
                  /\ weightSum(x, TwoPow(d)) > 0
                  /\ weightSum(x, TwoPow(d)) <= MaxWeight}}

Inputs == UNION {Distributions(d) : d \in 1..MaxD}

NoCall == [fn |-> "none", P |-> <<>>, c |-> <<>>, ret |-> <<>>]

Init ==
    /\ P \in Inputs
    /\ pc = "filter"
    /\ ci = 1
    /\ compatibles = <<>>
    /\ pi = 1
    /\ Ii = 1
    /\ objectives = <<>>
    /\ maximisers = <<>>
    /\ calls = <<>>
    /\ Lambda = Zero
    /\ Max = <<>>
    /\ error = "none"
    /\ call = NoCall

\* ------------------------------------------------------- indWeightHoles
\* a filter that lets configurations without a free coordinate through
keepWithoutFreeTest(c, p) == compatible(c, p)

\* a filter that lets incompatible configurations through
keepWithoutCompatibleTest(c, p) == Count(c, Half) > 0

\* if compatible(c,P) and c.count(0.5)>0
keep(c, p) == compatible(c, p) /\ Count(c, Half) > 0

\* list.index from the right: the last position holding x
RECURSIVE LastIndexFrom(_, _, _)
LastIndexFrom(s, x, i) ==
    IF i = 0 THEN 0
    ELSE IF s[i] = x THEN i
    ELSE LastIndexFrom(s, x, i - 1)

\* a reduction that keeps the last pair attaining the maximum
returnedLast(objs, maxs) ==
    [Lambda |-> max(objs), Max |-> maxs[LastIndexFrom(objs, max(objs), Len(objs))]]

\* Lambda = max(objectives); return Lambda, maximisers[objectives.index(Lambda)]
returned(objs, maxs) ==
    [Lambda |-> max(objs), Max |-> maxs[Index(objs, max(objs))]]

\* one iteration of `for c in C`
Filter ==
    /\ pc = "filter"
    /\ LET C == Configurations(dOf(P))
           c == C[ci]
       IN  /\ compatibles' = IF keep(c, P)
                             THEN Append(compatibles, c)
                             ELSE compatibles
           /\ ci' = ci + 1
           /\ pc' = IF ci = Len(C) THEN "search" ELSE "filter"
    /\ UNCHANGED <<P, pi, Ii, objectives, maximisers, calls, Lambda, Max,
                   error, call>>

\* the next position of the nested loops over compatibles and Range
advance ==
    IF Ii = TwoPow(dOf(P))
    THEN pi' = pi + 1 /\ Ii' = 1
    ELSE pi' = pi /\ Ii' = Ii + 1

\* one iteration of `for I in Range` with Q[Range.index(I)] > 0
Solve ==
    /\ pc = "search"
    /\ pi <= Len(compatibles)
    /\ LET c == compatibles[pi]
           R == Range(dOf(P))
           I == R[Ii]
           Q == createIndependentSource(c)
       IN  /\ RPos(Q[Index(R, I)])
           /\ LET res == computeVerticesHoles(P, I, c)
              IN  /\ calls' = Append(calls, [c |-> c, I |-> I, res |-> res])
                  /\ IF res.status = "ok"
                     THEN /\ objectives' = Append(objectives, res.M)
                          /\ maximisers' = Append(maximisers, res.q)
                          /\ advance
                          /\ UNCHANGED <<pc, error>>
                     ELSE /\ pc' = "failed"
                          /\ error' = "computeVerticesHoles:" \o res.status
                          /\ UNCHANGED <<objectives, maximisers, pi, Ii>>
    /\ UNCHANGED <<P, ci, compatibles, Lambda, Max, call>>

\* one iteration of `for I in Range` with Q[Range.index(I)] = 0
Skip ==
    /\ pc = "search"
    /\ pi <= Len(compatibles)
    /\ LET c == compatibles[pi]
           R == Range(dOf(P))
           Q == createIndependentSource(c)
       IN  ~RPos(Q[Index(R, R[Ii])])
    /\ advance
    /\ UNCHANGED <<P, pc, ci, compatibles, objectives, maximisers, calls,
                   Lambda, Max, error, call>>

\* the end of the loops: the reduction, or max() of an empty list
Reduce ==
    /\ pc = "search"
    /\ pi > Len(compatibles)
    /\ IF Len(objectives) = 0
       THEN /\ pc' = "failed"
            /\ error' = "indWeightHoles:ValueError"
            /\ UNCHANGED <<Lambda, Max>>
       ELSE /\ Lambda' = returned(objectives, maximisers).Lambda
            /\ Max' = returned(objectives, maximisers).Max
            /\ pc' = "done"
            /\ UNCHANGED error
    /\ UNCHANGED <<P, ci, compatibles, pi, Ii, objectives, maximisers, calls,
                   call>>

Next == Filter \/ Solve \/ Skip \/ Reduce

Spec == Init /\ [][Next]_vars

\* ------------------------------------------- direct calls of the functions
ConfigurationSet(d) ==
    {Configurations(d)[i] : i \in 1..ThreePow(d)}

\* the arguments of a direct call: a configuration c and a list T that is an
\* input distribution or the independent source of c itself
Arguments(c, T) == [fn |-> "none", P |-> T, c |-> c, ret |-> <<>>]

InitFn ==
    /\ P = <<>>
    /\ pc = "fn"
    /\ ci = 1
    /\ compatibles = <<>>
    /\ pi = 1
    /\ Ii = 1
    /\ objectives = <<>>
    /\ maximisers = <<>>
    /\ calls = <<>>
    /\ Lambda = Zero
    /\ Max = <<>>
    /\ error = "none"
    /\ \E d \in 1..MaxD :
          \/ \E T \in Distributions(d) : \E c \in ConfigurationSet(d) :
                call = Arguments(c, T)
          \/ \E c \in ConfigurationSet(d) :
                call = Arguments(c, createIndependentSource(c))

unchangedRun ==
    UNCHANGED <<P, pc, ci, compatibles, pi, Ii, objectives, maximisers, calls,
                Lambda, Max, error>>

\* createIndependentSource(c)
ApplyCreateIndependentSource ==
    /\ pc = "fn"
    /\ call.fn = "none"
    /\ call' = [call EXCEPT !.fn = "createIndependentSource",
                            !.ret = createIndependentSource(call.c)]
    /\ unchangedRun

\* compatible(c, T)
ApplyCompatible ==
    /\ pc = "fn"
    /\ call.fn = "none"
    /\ call' = [call EXCEPT !.fn = "compatible",
                            !.ret = <<compatible(call.c, call.P)>>]
    /\ unchangedRun

NextFn == ApplyCreateIndependentSource \/ ApplyCompatible

SpecFn == InitFn /\ [][NextFn]_vars

\* ============================================================ properties
\* bit j of the outcome at position x of the lexicographic order
bit(d, x, j) == ((x - 1) \div TwoPow(d - j)) % 2

\* outcome x agrees with c on every coordinate fixed to 0 or 1
agrees(c, x) ==
    \A j \in 1..Len(c) : c[j] = Half \/ c[j] = <<bit(Len(c), x, j), 1>>

\* C1: compatible(c, P) returns False exactly when some outcome j has
\* P[j] = 0 and Q[j] # 0 for Q = createIndependentSource(c); an outcome with
\* P[j] # 0 and Q[j] = 0 does not make it False.
C1_CompatibleFalseIffForbiddenMass ==
    call.fn = "compatible" =>
        LET Q == createIndependentSource(call.c)
        IN  (call.ret = <<FALSE>>) <=>
                (\E j \in 1..Len(call.P) : call.P[j] = Zero /\ Q[j] # Zero)

C1_Witness ==
    /\ call.fn = "compatible"
    /\ call.ret = <<TRUE>>
    /\ \E j \in 1..Len(call.P) :
          call.P[j] # Zero /\ createIndependentSource(call.c)[j] = Zero

\* C5: createIndependentSource(params) has length 2^d and its entry x is 0
\* when outcome x disagrees with params on a coordinate fixed to 0 or 1, and
\* otherwise the product of a factor 1 per fixed coordinate and 1/2 per free
\* coordinate.
C5_SourceOfConfiguration ==
    call.fn = "createIndependentSource" =>
        LET c == call.c
            d == Len(c)
        IN  /\ Len(call.ret) = TwoPow(d)
            /\ \A x \in 1..TwoPow(d) :
                  call.ret[x] = IF agrees(c, x)
                                THEN <<1, TwoPow(Count(c, Half))>>
                                ELSE Zero

C5_Witness ==
    /\ call.fn = "createIndependentSource"
    /\ Count(call.c, Zero) > 0
    /\ Count(call.c, Half) > 0
    /\ \E x \in 1..Len(call.ret) : call.ret[x] = Half
    /\ \E x \in 1..Len(call.ret) : call.ret[x] = Zero

\* C7: compatible(c, createIndependentSource(c)) returns True.
C7_SourceCompatibleWithItself ==
    (call.fn = "compatible" /\ call.P = createIndependentSource(call.c)) =>
        call.ret = <<TRUE>>

C7_Witness ==
    /\ call.fn = "compatible"
    /\ call.P = createIndependentSource(call.c)
    /\ Count(call.c, Half) > 0
    /\ Count(call.c, One) > 0
    /\ call.ret = <<TRUE>>

\* ---------------------------------------------- runs of indWeightHoles
finished == pc \in {"done", "failed"}

\* P is a point mass on the outcome at position x
pointMassOn(p, x) ==
    /\ Len(p) >= 2
    /\ x \in 1..Len(p)
    /\ p[x] = One
    /\ \A j \in 1..Len(p) : j # x => p[j] = Zero

\* C2: for P a point mass on outcome x, indWeightHoles(P) returns lambda = 1
\* and the deterministic parameter vector whose entry j is bit j of x.
C2_PointMassHasWeightOne ==
    \A x \in 1..Len(P) :
        (pointMassOn(P, x) /\ finished) =>
            /\ pc = "done"
            /\ Lambda = One
            /\ Max = [j \in 1..dOf(P) |-> <<bit(dOf(P), x, j), 1>>]

\* C3: an empty list of candidates (no accepted vertex for a pair, or no
\* objective at all) never ends a run: no run fails in max() of an empty list.
C3_EmptyCandidatesNotFatal ==
    /\ \A i \in DOMAIN calls :
          calls[i].res.vertices = <<>> => calls[i].res.status # "ValueError"
    /\ error \notin {"computeVerticesHoles:ValueError", "indWeightHoles:ValueError"}

uniform2 == <<<<1, 4>>, <<1, 4>>, <<1, 4>>, <<1, 4>>>>

\* C4: for P uniform over {0,1}^2, indWeightHoles(P) returns lambda = 1 and
\* the parameter vector [0.5, 0.5].
C4_UniformHasWeightOne ==
    (P = uniform2 /\ finished) =>
        (pc = "done" /\ Lambda = One /\ Max = <<Half, Half>>)

C4_Witness == P = uniform2 /\ pc = "done" /\ Len(objectives) > 1

\* position of the pair of call i in the enumeration order: configuration
\* order first, outcome order second
pairRank(i) ==
    LET d == dOf(P)
    IN  (Index(Configurations(d), calls[i].c) - 1) * TwoPow(d)
        + Index(Range(d), calls[i].I)

\* C6: the returned parameter vector is the one of the earliest pair, in
\* enumeration order, whose objective equals the maximum.
C6_FirstMaximiserReturned ==
    pc = "done" =>
        /\ \A i, j \in DOMAIN calls : i < j => pairRank(i) < pairRank(j)
        /\ \A i \in DOMAIN calls :
              (/\ calls[i].res.M = Lambda
               /\ \A j \in 1..(i - 1) : calls[j].res.M # Lambda)
              => Max = calls[i].res.q

C6_Witness ==
    /\ pc = "done"
    /\ \E i, j \in DOMAIN calls :
          /\ i < j
          /\ calls[i].res.M = Lambda
          /\ calls[j].res.M = Lambda
          /\ calls[i].res.q # calls[j].res.q
          /\ Max = calls[i].res.q

\* the pairs (c, I) with c compatible with P, c with a free coordinate and
\* Q_c[I] > 0
expected(c, I) ==
    /\ compatible(c, P)
    /\ Count(c, Half) > 0
    /\ RPos(createIndependentSource(c)[Index(Range(dOf(P)), I)])

expectedPairs ==
    LET d == dOf(P)
        R == Range(d)
    IN  {pair \in ConfigurationSet(d) \X {R[x] : x \in 1..Len(R)} :
            expected(pair[1], pair[2])}

callPairs == {<<calls[i].c, calls[i].I>> : i \in DOMAIN calls}

loopsOver ==
    pc = "done" \/ (pc = "failed" /\ error = "indWeightHoles:ValueError")

\* C8: computeVerticesHoles is invoked once for each pair (c, I) with c
\* compatible with P, c with a free coordinate and Q_c[I] > 0, and for no
\* other pair.
C8_SolverCalledOncePerKeptPair ==
    pc \in {"filter", "search", "done", "failed"} =>
        /\ \A c \in {calls[i].c : i \in DOMAIN calls} :
              /\ compatible(c, P)
              /\ Count(c, Half) > 0
              /\ LET Q == createIndependentSource(c)
                 IN  \A i \in DOMAIN calls :
                        calls[i].c = c =>
                            RPos(Q[Index(Range(dOf(P)), calls[i].I)])
        /\ Cardinality(callPairs) = Len(calls)
        /\ loopsOver => callPairs = expectedPairs

C8_Witness ==
    /\ pc = "done"
    /\ Len(calls) > 0
    /\ \E c \in ConfigurationSet(dOf(P)) : Count(c, Half) > 0 /\ ~compatible(c, P)
    /\ \E c \in ConfigurationSet(dOf(P)) : Count(c, Half) = 0 /\ compatible(c, P)
    /\ Len(calls) < Len(compatibles) * Len(P)

\* the logistic transform of y with the sign chosen by a bit:
\* s / (1 + s) for s = exp(y) ** (1 - 2 * bit)
logistic(y, b) ==
    LET s == IF b = 0 THEN Exp(y) ELSE Exp(-y)
    IN  RDiv(s, RAdd(One, s))

\* C9: in the vector q of computeVerticesHoles(P, k, c), the entry of a free
\* coordinate j is the logistic transform of its solved value with the sign
\* taken from bit j of k.
C9_SignFromOwnCoordinate ==
    \A i \in DOMAIN calls :
        LET c == calls[i].c
            k == calls[i].I
            res == calls[i].res
        IN  res.status = "ok" =>
                \A j \in 1..Len(c) :
                    c[j] = Half =>
                        res.q[j] = logistic(
                            res.yhat[Cardinality({x \in 1..j : c[x] = Half})],
                            k[j])

\* C10: in every call made by indWeightHoles, P is positive wherever Q_c is,
\* the reference outcome included, and the system has 2^e - 1 rows, one per
\* outcome of the support of Q_c other than the reference outcome.
C10_RowsAreSupportOfSource ==
    \A c \in {calls[i].c : i \in DOMAIN calls} :
        LET Q == createIndependentSource(c)
            support == {j \in 1..Len(Q) : Q[j] # Zero}
        IN  /\ \A j \in support : RPos(P[j])
            /\ \A i \in DOMAIN calls :
                  calls[i].c = c =>
                      LET K == Index(Range(dOf(P)), calls[i].I)
                          res == calls[i].res
                      IN  /\ RPos(P[K])
                          /\ Len(res.A) = TwoPow(Count(c, Half)) - 1
                          /\ Len(res.b) = Len(res.A)
                          /\ {res.rows[r] : r \in DOMAIN res.rows}
                                = support \ {K}

C10_Witness ==
    /\ \E j \in 1..Len(P) : P[j] = Zero
    /\ \E i \in DOMAIN calls :
          /\ Count(calls[i].c, Half) = 1
          /\ Count(calls[i].c, Half) < Len(calls[i].c)
          /\ Len(calls[i].res.A) = 1
          /\ calls[i].res.status = "ok"

====
